---- MODULE Spec2Model ----
(***************************************************************************)
(* Model of data_mining/cluster_parallel_query.py: the streaming range     *)
(* partitioner (count_lines, iter_id_ranges), the admission gate           *)
(* (limit_jobs, free_connections_exceed), the descriptor builder           *)
(* (create_query_job) and the submission driver (submit_subgroup_jobs),    *)
(* together with the scheduler and the database they talk to.              *)
(*                                                                         *)
(* Encoding of Python values:                                              *)
(*   identifiers (row[0]) are strings; a non-empty identifier is a         *)
(*   natural >= 1 (its rank in the sort order), the empty string is        *)
(*   EmptyStr and None is NoneVal.  Both are falsy in `if not first_id`.   *)
(*   A job handle is the last whitespace-separated token of sbatch's       *)
(*   stdout; tokens are integers, job ids are >= 1, any other word is      *)
(*   WordTok.                                                              *)
(***************************************************************************)
EXTENDS Integers, Sequences, FiniteSets, TLC

\* ------------------------------------------------------------------ bounds
\* Largest number of data rows / target counts enumerated for the partitioner.
MaxRows == 12
MaxSubgroups == 13
\* Largest number of rows and of distinct non-empty identifiers of the files
\* enumerated with repeated and empty identifiers.
MaxMixedRows == 4
MaxIds == 3
\* Largest number of data rows / target counts enumerated for the driver.
MaxDriverRows == 3
MaxDriverSubgroups == 3
\* Largest resume threshold of the index filter enumerated for the driver.
MaxResume == 2

\* ------------------------------------------------------ program constants
\* The ceiling the module hands to limit_jobs.
MAX_JOBS_RUNNING == 180
\* limit_jobs: the literal margins and thresholds of the three conditions.
MarginLow == 150
MarginMid == 20
HighThreshold == 30
LowThreshold == 15
\* limit_jobs: the sleeps (seconds).
ShortDelay == 5
LongDelay == 15
PollInterval == 30

\* data_mining_openalex/cluster_parallel_query.py: the same limit_jobs with
\* MAX_JOBS_RUNNING = 20 and 50 as the margin of condition 1.
OpenalexCeiling == 20
OpenalexMarginLow == 50

NoneVal == -1
EmptyStr == 0
WordTok == 0

VARIABLES
    \* ---- the identifier file (header line + data rows)
    rows,            \* sequence of identifiers, one per data row
    ends_nl,         \* TRUE iff the last line of the file ends with a newline
    \* ---- iter_id_ranges (a generator: it runs only inside next())
    num_subgroups,   \* its argument
    gen_pc,          \* "init" | "loop" | "at_yield" | "at_tail" | "done"
    total_lines, chunk_size, first_id, count,
    pos,             \* number of data rows the csv reader has returned
    row,             \* row[0] of the last row read (NoneVal: unbound)
    ranges,          \* every (min_id, max_id) yielded so far, in order
    first_row,       \* the data row first_id was read from (0: none)
    spans,           \* <<row of min_id, row of max_id>> of every yielded pair
    \* ---- submit_subgroup_jobs / limit_jobs
    pc,              \* position of the consumer of the generator
    max_jobs_running,\* MAX_JOBS_RUNNING, the ceiling handed to limit_jobs
    resume_from,     \* the index filter: `if idx < resume_from: continue`
    idx,             \* enumerate(..., start=1) index of the current range
    job_queue,       \* the in-flight handle list
    still_running,   \* limit_jobs: the list rebuilt by the current cycle
    probe_i,         \* limit_jobs: position of `for job in job_queue`
    n_running,       \* limit_jobs: len(job_queue) after the prune
    delay,           \* seconds of the sleep being executed (0: none)
    db_queries,      \* thresholds handed to free_connections_exceed in this cycle
    reports,         \* <<job, printed>> of every squeue call of this cycle
    db_moved,        \* db_free changed after a query of the cycle being decided
    scripts,         \* SBATCH files on disk: set of [idx, min_id, max_id]
    job_id,          \* the handle parsed from the last sbatch response
    \* ---- environment
    live,            \* job ids present in the scheduler queue
    db_free,         \* free non-superuser connection slots
    next_job,        \* the id the scheduler gives to the next job
    \* ---- history
    events,          \* <<step, idx>> of the driver's steps, in order
    recorded,        \* every handle ever appended to job_queue, in order
    false_absent,    \* TRUE once squeue printed nothing for a live job
    raised,          \* the exception that left submit_subgroup_jobs ("": none)
    slept            \* TRUE once a gate has slept the polling interval

genvars == <<num_subgroups, gen_pc, total_lines, chunk_size, first_id, count,
             pos, row, ranges, first_row, spans>>
filevars == <<rows, ends_nl>>
gatevars == <<still_running, probe_i, n_running, delay, db_queries, reports,
              db_moved>>
drvvars == <<max_jobs_running, resume_from, idx, job_queue, scripts, job_id>>
envvars == <<live, db_free, next_job>>
histvars == <<events, recorded, false_absent, raised, slept>>
vars == <<rows, ends_nl, num_subgroups, gen_pc, total_lines, chunk_size,
          first_id, count, pos, row, ranges, first_row, spans, pc, max_jobs_running,
          resume_from, idx, job_queue, still_running, probe_i, n_running,
          delay, db_queries, reports, db_moved, scripts, job_id, live, db_free, next_job,
          events, recorded, false_absent, raised, slept>>

\* ------------------------------------------------------------ the file
\* iter_id_ranges reads row[0] of every data row of a file it is handed,
\* "assuming IDs are pre-sorted"; the module writes no such file.
\* The i-th of the non-empty identifiers used in the enumerated files.
IdOfRow(i) == 2 * i + 5

\* The file of n distinct non-empty identifiers in ascending order.
SortedFile(n) == [i \in 1..n |-> IdOfRow(i)]

\* The identifiers of the files enumerated with repeats: the empty string,
\* which sorts before every other identifier, and MaxIds non-empty ones.
Ids == {EmptyStr} \cup {IdOfRow(i) : i \in 1..MaxIds}

\* Every pre-sorted file of n rows over Ids: an identifier may stand on
\* several rows and may be empty.
SortedFiles(n) == {f \in [1..n -> Ids] : \A i \in 1..(n - 1) : f[i] <= f[i + 1]}

\* `wc -l`: the number of newline characters of the file (header + rows).
WcLines(rs, nl) == (1 + Len(rs)) - (IF nl THEN 0 ELSE 1)

\* count_lines: int(wc -l) - 1
count_lines(rs, nl) == WcLines(rs, nl) - 1

\* Python truthiness of first_id (None and "" are falsy).
Falsy(x) == x = NoneVal \/ x = EmptyStr

\* A plausible slip: floor instead of ceiling.
ChunkSizeFloor(total, k) == total \div k

\* chunk_size = (total_lines + num_subgroups - 1) // num_subgroups
\* (floor division, also for a negative numerator)
ChunkSize(total, k) == (total + k - 1) \div k

\* ------------------------------------------------- iter_id_ranges
\* The generator runs only while its consumer is inside next(): the list
\* consumer ("collect") or the driver's for statement ("next").
InNext == pc \in {"collect", "next"}

\* `yield first_id, row[0]`: the pair goes to the consumer, which leaves next().
Yield(lo, hi, lo_row, hi_row) ==
    /\ ranges' = Append(ranges, <<lo, hi>>)
    /\ spans' = Append(spans, <<lo_row, hi_row>>)
    /\ pc' = IF pc = "collect" THEN "collect" ELSE "item"

\* The generator returns: StopIteration ends the consumer's loop.
StopIteration ==
    /\ ranges' = ranges /\ spans' = spans
    /\ pc' = IF pc = "collect" THEN "collected" ELSE "return"

\* First next(): count_lines, chunk_size, open the file, skip the header.
GenStart ==
    /\ InNext /\ gen_pc = "init"
    /\ total_lines' = count_lines(rows, ends_nl)
    /\ chunk_size' = ChunkSize(count_lines(rows, ends_nl), num_subgroups)
    /\ first_id' = NoneVal /\ count' = 0 /\ pos' = 0 /\ first_row' = 0
    /\ gen_pc' = "loop"
    /\ UNCHANGED <<rows, ends_nl, num_subgroups, row, ranges, spans, pc>>
    /\ UNCHANGED <<gatevars, drvvars, envvars, histvars>>

\* One iteration of `for row in reader`.
GenRow ==
    /\ InNext /\ gen_pc = "loop" /\ pos < Len(rows)
    /\ LET r == rows[pos + 1]
           f == IF Falsy(first_id) THEN r ELSE first_id
           f_row == IF Falsy(first_id) THEN pos + 1 ELSE first_row
       IN  /\ row' = r
           /\ pos' = pos + 1
           /\ first_id' = f
           /\ first_row' = f_row
           /\ count' = count + 1
           /\ IF count + 1 = chunk_size
                 THEN Yield(f, r, f_row, pos + 1) /\ gen_pc' = "at_yield"
                 ELSE UNCHANGED <<ranges, spans, pc>> /\ gen_pc' = "loop"
    /\ UNCHANGED <<rows, ends_nl, num_subgroups, total_lines, chunk_size>>
    /\ UNCHANGED <<gatevars, drvvars, envvars, histvars>>

\* A plausible slip: only the count is reset after a yield.
GenResumeKeepsFirst ==
    /\ InNext /\ gen_pc = "at_yield"
    /\ first_id' = first_id /\ count' = 0 /\ first_row' = first_row
    /\ gen_pc' = "loop"
    /\ UNCHANGED <<rows, ends_nl, num_subgroups, total_lines, chunk_size, pos,
                   row, ranges, spans, pc>>
    /\ UNCHANGED <<gatevars, drvvars, envvars, histvars>>

\* Resumed after `yield` in the loop: first_id, count = None, 0.
GenResume ==
    /\ InNext /\ gen_pc = "at_yield"
    /\ first_id' = NoneVal /\ count' = 0 /\ first_row' = 0
    /\ gen_pc' = "loop"
    /\ UNCHANGED <<rows, ends_nl, num_subgroups, total_lines, chunk_size, pos,
                   row, ranges, spans, pc>>
    /\ UNCHANGED <<gatevars, drvvars, envvars, histvars>>

\* A plausible slip: the closing yield without its `if first_id` guard.
GenTailAlways ==
    /\ InNext /\ gen_pc = "loop" /\ pos = Len(rows)
    /\ Yield(first_id, row, first_row, pos) /\ gen_pc' = "at_tail"
    /\ UNCHANGED <<rows, ends_nl, num_subgroups, total_lines, chunk_size,
                   first_id, count, pos, row, first_row>>
    /\ UNCHANGED <<gatevars, drvvars, envvars, histvars>>

\* The reader is exhausted: `if first_id: yield first_id, row[0]`.
GenTail ==
    /\ InNext /\ gen_pc = "loop" /\ pos = Len(rows)
    /\ IF ~Falsy(first_id)
          THEN Yield(first_id, row, first_row, pos) /\ gen_pc' = "at_tail"
          ELSE StopIteration /\ gen_pc' = "done"
    /\ UNCHANGED <<rows, ends_nl, num_subgroups, total_lines, chunk_size,
                   first_id, count, pos, row, first_row>>
    /\ UNCHANGED <<gatevars, drvvars, envvars, histvars>>

\* Resumed after the last yield: the generator function ends.
GenFinish ==
    /\ InNext /\ gen_pc = "at_tail"
    /\ StopIteration /\ gen_pc' = "done"
    /\ UNCHANGED <<rows, ends_nl, num_subgroups, total_lines, chunk_size,
                   first_id, count, pos, row, first_row>>
    /\ UNCHANGED <<gatevars, drvvars, envvars, histvars>>

\* ---------------------------------------------- partitioner specification
\* list(iter_id_ranges(file, k)) for every enumerated file and target count,
\* plus the 95-row / 10-partition case of the end-to-end property.
PartRowCounts == (0..MaxRows) \cup {95}
PartFiles == {SortedFile(n) : n \in PartRowCounts}
                 \cup UNION {SortedFiles(n) : n \in 0..MaxMixedRows}
PartSubgroups == (1..MaxSubgroups) \cup {10}

IdleDriver ==
    /\ max_jobs_running = MAX_JOBS_RUNNING /\ resume_from = 1 /\ idx = 0
    /\ job_queue = <<>> /\ still_running = <<>> /\ probe_i = 0
    /\ n_running = 0 /\ delay = 0 /\ db_queries = <<>> /\ scripts = {}
    /\ job_id = NoneVal /\ live = {} /\ db_free = LowThreshold /\ next_job = 1
    /\ events = <<>> /\ recorded = <<>> /\ false_absent = FALSE
    /\ reports = <<>> /\ raised = "" /\ slept = FALSE
    /\ db_moved = FALSE

FreshGenerator ==
    /\ gen_pc = "init" /\ total_lines = 0 /\ chunk_size = 0
    /\ first_id = NoneVal /\ count = 0 /\ pos = 0 /\ row = NoneVal
    /\ ranges = <<>> /\ first_row = 0 /\ spans = <<>>

InitPart ==
    /\ rows \in PartFiles
    /\ ends_nl \in BOOLEAN
    /\ num_subgroups \in PartSubgroups
    /\ FreshGenerator
    /\ pc = "collect"
    /\ IdleDriver

NextPart == GenStart \/ GenRow \/ GenResume \/ GenTail \/ GenFinish

SpecPart == InitPart /\ [][NextPart]_vars

\* ------------------------------------------------- the environment
\* Values of the free-connection count the database can report: both sides
\* of each threshold of limit_jobs.
DbFreeValues == {LowThreshold, LowThreshold + 1, HighThreshold, HighThreshold + 1}

\* Ceilings enumerated for max_jobs_running: just above zero, just above
\* the mid margin and just above the low margin (so that each of the three
\* conditions of limit_jobs decides some cycle), MAX_JOBS_RUNNING itself, and
\* the MAX_JOBS_RUNNING of the openalex copy.
Ceilings == {2, MarginMid + 2, MarginLow + 2, MAX_JOBS_RUNNING, OpenalexCeiling}

\* A plausible slip: >= instead of > in the connection query.
free_connections_reach(threshold) == db_free >= threshold

\* free_connections_exceed(threshold): (max_conn - super_res - active) > threshold
free_connections_exceed(threshold) == db_free > threshold

\* The positions of submit_subgroup_jobs, from its first statement to its
\* return or the exception that left it.
DriverPcs == {"start", "next", "item", "build", "gate", "squeue", "cond1", "cond2",
              "cond3", "sleep", "release", "sbatch", "append", "return", "done",
              "IndexError", "DbError", "OSError"}

\* The positions inside one polling cycle of limit_jobs after its first query.
CyclePcs == {"cond2", "cond3", "sleep", "release"}

\* A job of the queue ends (completes, fails or is cancelled): the scheduler
\* does this at any moment, whatever the driver is doing.
JobEnds ==
    /\ pc \in DriverPcs
    /\ \E j \in live : live' = live \ {j}
    /\ UNCHANGED <<db_free, next_job, pc>>
    /\ UNCHANGED <<filevars, genvars, gatevars, drvvars, histvars>>

\* The number of free connections changes: other clients of the database
\* connect and disconnect at any moment.
DbChange ==
    /\ pc \in DriverPcs
    /\ \E v \in DbFreeValues \ {db_free} : db_free' = v
    /\ db_moved' = (db_moved \/ (pc \in CyclePcs /\ db_queries # <<>>))
    /\ UNCHANGED <<still_running, probe_i, n_running, delay, db_queries, reports>>
    /\ UNCHANGED <<live, next_job, pc>>
    /\ UNCHANGED <<filevars, genvars, drvvars, histvars>>

\* A plausible slip: a probe that can report any handle present.
SqueuePresentAny(job) == {TRUE, FALSE}

\* What `squeue -h -j job` can print: a line iff the job is in the queue,
\* or nothing at all when the call fails.
SqueuePresent(job) == IF job \in live THEN {TRUE, FALSE} ELSE {FALSE}

\* What `sbatch script` can do.  stdout is a sequence of tokens:
\*   "Submitted batch job N"               (job N queued)
\*   "Submitted batch job N on cluster C"  (job N queued, unexpected text)
\*   "<word> <word>"                       (no job, unexpected text)
\*   ""                                    (no job, the error is on stderr)
SbatchOutcomes ==
    { [stdout |-> <<WordTok, WordTok, WordTok, next_job>>, queued |-> TRUE],
      [stdout |-> <<WordTok, WordTok, WordTok, next_job, WordTok, WordTok, WordTok>>,
       queued |-> TRUE],
      [stdout |-> <<WordTok, WordTok>>, queued |-> FALSE],
      [stdout |-> <<>>, queued |-> FALSE] }

\* ------------------------------------------------- create_query_job
\* Decimal digits of a natural, most significant first.
RECURSIVE Digits(_)
Digits(i) == IF i < 10 THEN <<i>> ELSE Append(Digits(i \div 10), i % 10)

\* f"{subgroup_idx:03d}": zero-padded to at least three digits.
RECURSIVE PadTo3(_)
PadTo3(ds) == IF Len(ds) >= 3 THEN ds ELSE PadTo3(<<0>> \o ds)

\* A plausible slip: the index cut to its last three digits.
Pad03dLastThree(i) == PadTo3(Digits(i % 1000))

Pad03d(i) == PadTo3(Digits(i))

\* The file create_query_job writes: works_q_<idx:03d>.sbatch, whose last
\* line runs the worker on (min_id, max_id, output_csv).  Writing replaces
\* whatever the path held.
create_query_job(i, lo, hi, csv) ==
    LET f == [path |-> Pad03d(i), min_id |-> lo, max_id |-> hi, output_csv |-> csv]
    IN  {s \in scripts : s.path # f.path} \cup {f}

\* ------------------------------------------------- limit_jobs
\* Top of `while True`: still_running = [] and the probe loop starts.
CycleStart ==
    /\ still_running' = <<>>
    /\ probe_i' = 1
    /\ db_queries' = <<>>
    /\ reports' = <<>>
    /\ db_moved' = FALSE
    /\ n_running' = n_running
    /\ pc' = "squeue"

\* A plausible slip: the margin added instead of subtracted.
Condition1Plus(n, ceiling) == n < ceiling + MarginLow
\* A plausible slip: <= instead of <.
Condition3Inclusive(n, ceiling) == n <= ceiling

\* A plausible slip: condition 3 pasted from condition 1 with its margin.
Condition3Pasted(n, ceiling) == n < ceiling - MarginLow

\* A plausible slip: the mid margin left out.
Condition2NoMargin(n, ceiling) == n < ceiling

\* A plausible slip: the mid margin added instead of subtracted.
Condition2Plus(n, ceiling) == n < ceiling + MarginMid

\* condition 1: n_running < max_jobs_running - 150
Condition1(n, ceiling) == n < ceiling - MarginLow
\* the count part of condition 2: n_running < max_jobs_running - 20
Condition2(n, ceiling) == n < ceiling - MarginMid
\* the count part of condition 3: n_running < max_jobs_running
Condition3(n, ceiling) == n < ceiling

\* A plausible slip: the job is kept without looking at what squeue printed.
SqueueKeepsUnseen ==
    /\ pc = "squeue" /\ probe_i <= Len(job_queue)
    /\ LET job == job_queue[probe_i] IN
       \E present \in SqueuePresent(job) :
          /\ still_running' = Append(still_running, job)
          /\ false_absent' = (false_absent \/ (job \in live /\ ~present))
          /\ reports' = Append(reports, <<job, present>>)
          /\ db_moved' = db_moved
    /\ probe_i' = probe_i + 1
    /\ UNCHANGED <<n_running, delay, db_queries, pc, events, recorded, raised, slept>>
    /\ UNCHANGED <<filevars, genvars, drvvars, envvars>>

\* One iteration of `for job in job_queue`: squeue, keep the job if it printed.
Squeue ==
    /\ pc = "squeue" /\ probe_i <= Len(job_queue)
    /\ LET job == job_queue[probe_i] IN
       \E present \in SqueuePresent(job) :
          /\ still_running' = IF present THEN Append(still_running, job)
                                         ELSE still_running
          /\ false_absent' = (false_absent \/ (job \in live /\ ~present))
          /\ reports' = Append(reports, <<job, present>>)
          /\ db_moved' = db_moved
    /\ probe_i' = probe_i + 1
    /\ UNCHANGED <<n_running, delay, db_queries, pc, events, recorded, raised, slept>>
    /\ UNCHANGED <<filevars, genvars, drvvars, envvars>>

\* A plausible slip: the probe results are dropped and the list is kept.
PruneKeepsAll ==
    /\ pc = "squeue" /\ probe_i > Len(job_queue)
    /\ job_queue' = job_queue
    /\ n_running' = Len(job_queue)
    /\ pc' = "cond1"
    /\ UNCHANGED <<still_running, probe_i, delay, db_queries, reports, db_moved>>
    /\ UNCHANGED <<max_jobs_running, resume_from, idx, scripts, job_id>>
    /\ UNCHANGED <<filevars, genvars, envvars, histvars>>

\* job_queue[:] = still_running; n_running = len(job_queue)
Prune ==
    /\ pc = "squeue" /\ probe_i > Len(job_queue)
    /\ job_queue' = still_running
    /\ n_running' = Len(still_running)
    /\ pc' = "cond1"
    /\ UNCHANGED <<still_running, probe_i, delay, db_queries, reports, db_moved>>
    /\ UNCHANGED <<max_jobs_running, resume_from, idx, scripts, job_id>>
    /\ UNCHANGED <<filevars, genvars, envvars, histvars>>

\* A plausible slip: condition 1 written like the other two, with a query.
Cond1WithQuery ==
    /\ pc = "cond1"
    /\ IF Condition1(n_running, max_jobs_running)
          THEN /\ db_queries' = Append(db_queries, HighThreshold)
               /\ IF free_connections_exceed(HighThreshold)
                     THEN delay' = ShortDelay /\ pc' = "release"
                     ELSE delay' = delay /\ pc' = "cond2"
          ELSE UNCHANGED <<db_queries, delay>> /\ pc' = "cond2"
    /\ UNCHANGED <<still_running, probe_i, n_running, reports, db_moved>>
    /\ UNCHANGED <<filevars, genvars, drvvars, envvars, histvars>>

Cond1 ==
    /\ pc = "cond1"
    /\ IF Condition1(n_running, max_jobs_running)
          THEN delay' = ShortDelay /\ pc' = "release"
          ELSE delay' = delay /\ pc' = "cond2"
    /\ UNCHANGED <<still_running, probe_i, n_running, db_queries, reports, db_moved>>
    /\ UNCHANGED <<filevars, genvars, drvvars, envvars, histvars>>

\* `A and free_connections_exceed(30)`: the query runs only when A holds.
Cond2 ==
    /\ pc = "cond2"
    /\ IF Condition2(n_running, max_jobs_running)
          THEN /\ db_queries' = Append(db_queries, HighThreshold)
               /\ IF free_connections_exceed(HighThreshold)
                     THEN delay' = ShortDelay /\ pc' = "release"
                     ELSE delay' = delay /\ pc' = "cond3"
          ELSE UNCHANGED <<db_queries, delay>> /\ pc' = "cond3"
    /\ UNCHANGED <<still_running, probe_i, n_running, reports, db_moved>>
    /\ UNCHANGED <<filevars, genvars, drvvars, envvars, histvars>>

Cond3 ==
    /\ pc = "cond3"
    /\ IF Condition3(n_running, max_jobs_running)
          THEN /\ db_queries' = Append(db_queries, LowThreshold)
               /\ IF free_connections_exceed(LowThreshold)
                     THEN delay' = LongDelay /\ pc' = "release"
                     ELSE delay' = PollInterval /\ pc' = "sleep"
          ELSE /\ db_queries' = db_queries
               /\ delay' = PollInterval /\ pc' = "sleep"
    /\ UNCHANGED <<still_running, probe_i, n_running, reports, db_moved>>
    /\ UNCHANGED <<filevars, genvars, drvvars, envvars, histvars>>

\* time.sleep(30), then the next cycle.
Sleep ==
    /\ pc = "sleep"
    /\ CycleStart
    /\ delay' = 0
    /\ slept' = TRUE
    /\ UNCHANGED <<events, recorded, false_absent, raised>>
    /\ UNCHANGED <<filevars, genvars, drvvars, envvars>>

\* time.sleep(5) or time.sleep(15), then `return job_queue`.
Release ==
    /\ pc = "release"
    /\ delay' = 0
    /\ pc' = "sbatch"
    /\ db_moved' = FALSE
    /\ UNCHANGED <<still_running, probe_i, n_running, db_queries, reports>>
    /\ UNCHANGED <<filevars, genvars, drvvars, envvars, histvars>>

\* ------------------------------------------------- submit_subgroup_jobs
\* os.makedirs(output_dir); job_queue = []; the for statement calls next().
Start ==
    /\ pc = "start"
    /\ job_queue' = <<>>
    /\ pc' = "next"
    /\ UNCHANGED <<max_jobs_running, resume_from, idx, scripts, job_id>>
    /\ UNCHANGED <<filevars, genvars, gatevars, envvars, histvars>>

\* The index filter: `if idx < 5556: continue`.
Skipped(i, from) == i < from

\* enumerate(..., start=1) numbers the pair; the filter keeps or skips it.
Item ==
    /\ pc = "item"
    /\ idx' = idx + 1
    /\ pc' = IF Skipped(idx + 1, resume_from) THEN "next" ELSE "build"
    /\ UNCHANGED <<max_jobs_running, resume_from, job_queue, scripts, job_id>>
    /\ UNCHANGED <<filevars, genvars, gatevars, envvars, histvars>>

\* A plausible slip: the script is submitted without consulting the gate.
BuildSkipsGate ==
    /\ pc = "build"
    /\ scripts' = create_query_job(idx, ranges[idx][1], ranges[idx][2], Pad03d(idx))
    /\ events' = Append(events, <<"build", idx>>)
    /\ pc' = "sbatch"
    /\ UNCHANGED <<max_jobs_running, resume_from, idx, job_queue, job_id>>
    /\ UNCHANGED <<recorded, false_absent, raised, slept>>
    /\ UNCHANGED <<filevars, genvars, gatevars, envvars>>

\* A plausible slip: the partitions numbered after the filter, not before.
BuildRenumbers ==
    /\ pc = "build"
    /\ scripts' = create_query_job(idx - resume_from + 1, ranges[idx][1],
                                   ranges[idx][2], Pad03d(idx - resume_from + 1))
    /\ events' = Append(events, <<"build", idx>>)
    /\ pc' = "gate"
    /\ UNCHANGED <<max_jobs_running, resume_from, idx, job_queue, job_id>>
    /\ UNCHANGED <<recorded, false_absent, raised, slept>>
    /\ UNCHANGED <<filevars, genvars, gatevars, envvars>>

\* csv_path = subgroup_<idx:03d>.csv; script_path = create_query_job(...)
Build ==
    /\ pc = "build"
    /\ scripts' = create_query_job(idx, ranges[idx][1], ranges[idx][2], Pad03d(idx))
    /\ events' = Append(events, <<"build", idx>>)
    /\ pc' = "gate"
    /\ UNCHANGED <<max_jobs_running, resume_from, idx, job_queue, job_id>>
    /\ UNCHANGED <<recorded, false_absent, raised, slept>>
    /\ UNCHANGED <<filevars, genvars, gatevars, envvars>>

\* job_queue = limit_jobs(job_queue, MAX_JOBS_RUNNING): the call.
Gate ==
    /\ pc = "gate"
    /\ CycleStart
    /\ delay' = 0
    /\ events' = Append(events, <<"gate", idx>>)
    /\ UNCHANGED <<recorded, false_absent, raised, slept>>
    /\ UNCHANGED <<filevars, genvars, drvvars, envvars>>

\* submit.stdout.decode().strip().split()[-1]; [] has no last element.
ParseJobId(stdout) == IF stdout = <<>> THEN NoneVal ELSE stdout[Len(stdout)]

\* submit = subprocess.run(["sbatch", script_path]); job_id = ...split()[-1]
\* An empty stdout raises IndexError, which nothing catches.
Sbatch ==
    /\ pc = "sbatch"
    /\ \E out \in SbatchOutcomes :
          /\ live' = IF out.queued THEN live \cup {next_job} ELSE live
          /\ next_job' = IF out.queued THEN next_job + 1 ELSE next_job
          /\ job_id' = ParseJobId(out.stdout)
          /\ pc' = IF out.stdout = <<>> THEN "IndexError" ELSE "append"
          /\ raised' = IF out.stdout = <<>> THEN "IndexError" ELSE raised
          /\ slept' = slept
    /\ events' = Append(events, <<"submit", idx>>)
    /\ UNCHANGED <<max_jobs_running, resume_from, idx, job_queue, scripts>>
    /\ UNCHANGED <<db_free, recorded, false_absent>>
    /\ UNCHANGED <<filevars, genvars, gatevars>>

\* job_queue.append(job_id); print(...); the for statement calls next().
Record ==
    /\ pc = "append"
    /\ job_queue' = Append(job_queue, job_id)
    /\ recorded' = Append(recorded, job_id)
    /\ events' = Append(events, <<"record", idx>>)
    /\ pc' = "next"
    /\ UNCHANGED <<max_jobs_running, resume_from, idx, scripts, job_id>>
    /\ UNCHANGED <<false_absent, raised, slept>>
    /\ UNCHANGED <<filevars, genvars, gatevars, envvars>>

\* ------------------------------------------------- external calls that raise
\* subprocess.run(["squeue", ...]) raises (the command cannot be started):
\* nothing in limit_jobs or submit_subgroup_jobs catches it.
SqueueFails ==
    /\ pc = "squeue" /\ probe_i <= Len(job_queue)
    /\ pc' = "OSError"
    /\ raised' = "OSError"
    /\ UNCHANGED <<events, recorded, false_absent, slept>>
    /\ UNCHANGED <<filevars, genvars, gatevars, drvvars, envvars>>

\* A plausible slip: the query wrapped in try/except, a failure read as
\* "not yet" and the gate left to sleep and poll again.
DbFailsSwallowed ==
    /\ \/ pc = "cond2" /\ Condition2(n_running, max_jobs_running)
                       /\ db_queries' = Append(db_queries, HighThreshold)
       \/ pc = "cond3" /\ Condition3(n_running, max_jobs_running)
                       /\ db_queries' = Append(db_queries, LowThreshold)
    /\ pc' = "sleep"
    /\ raised' = "DbError"
    /\ UNCHANGED <<still_running, probe_i, n_running, delay, reports, db_moved>>
    /\ UNCHANGED <<events, recorded, false_absent, slept>>
    /\ UNCHANGED <<filevars, genvars, drvvars, envvars>>

\* free_connections_exceed raises (execute_pg_query cannot connect, or the
\* query fails) in condition 2 or condition 3, where it is called.
DbFails ==
    /\ \/ pc = "cond2" /\ Condition2(n_running, max_jobs_running)
                       /\ db_queries' = Append(db_queries, HighThreshold)
       \/ pc = "cond3" /\ Condition3(n_running, max_jobs_running)
                       /\ db_queries' = Append(db_queries, LowThreshold)
    /\ pc' = "DbError"
    /\ raised' = "DbError"
    /\ UNCHANGED <<still_running, probe_i, n_running, delay, reports, db_moved>>
    /\ UNCHANGED <<events, recorded, false_absent, slept>>
    /\ UNCHANGED <<filevars, genvars, drvvars, envvars>>

\* subprocess.run(["sbatch", ...]) raises: no job is queued.
SbatchFails ==
    /\ pc = "sbatch"
    /\ pc' = "OSError"
    /\ raised' = "OSError"
    /\ UNCHANGED <<events, recorded, false_absent, slept>>
    /\ UNCHANGED <<filevars, genvars, gatevars, drvvars, envvars>>

\* return job_queue
Return ==
    /\ pc = "return"
    /\ pc' = "done"
    /\ UNCHANGED <<filevars, genvars, gatevars, drvvars, envvars, histvars>>

\* ------------------------------------------------- driver specification
\* The files handed to the driver: distinct identifiers, and the two-row
\* files whose first identifier is empty or repeated.
DriverFiles == {SortedFile(n) : n \in 0..MaxDriverRows}
                   \cup {f \in SortedFiles(2) : f[2] = IdOfRow(1)}

Init ==
    /\ rows \in DriverFiles
    /\ ends_nl \in BOOLEAN
    /\ num_subgroups \in 1..MaxDriverSubgroups
    /\ FreshGenerator
    /\ pc = "start"
    /\ max_jobs_running \in Ceilings
    /\ resume_from \in 1..MaxResume
    /\ idx = 0 /\ job_queue = <<>> /\ still_running = <<>> /\ probe_i = 0
    /\ n_running = 0 /\ delay = 0 /\ db_queries = <<>> /\ scripts = {}
    /\ job_id = NoneVal
    /\ live = {} /\ db_free \in DbFreeValues /\ next_job = 1
    /\ events = <<>> /\ recorded = <<>> /\ false_absent = FALSE
    /\ reports = <<>> /\ raised = "" /\ slept = FALSE
    /\ db_moved = FALSE

Generator == GenStart \/ GenRow \/ GenResume \/ GenTail \/ GenFinish

Driver == Start \/ Item \/ Build \/ Gate \/ Sbatch \/ Record \/ Return

LimitJobs == Squeue \/ Prune \/ Cond1 \/ Cond2 \/ Cond3 \/ Sleep \/ Release

Environment == JobEnds \/ DbChange

Failures == SqueueFails \/ DbFails \/ SbatchFails

Next == Generator \/ Driver \/ LimitJobs \/ Environment \/ Failures

Spec == Init /\ [][Next]_vars

\* The driver is one running process: whenever it has a next statement it
\* executes one, and time.sleep returns.  Nothing is assumed of the
\* environment (jobs ending, connections freed) or of calls that raise.
Program == Generator \/ Driver \/ LimitJobs

\* The runs checked for progress start from the files that end with a
\* newline, as the csv.writer of down.py leaves them, under the ceilings of
\* data_mining/cluster_parallel_query.py: the openalex ceiling sends every
\* cycle to the third condition, which the ceilings 2 and MarginMid + 2 do
\* as well.
InitFair == Init /\ ends_nl /\ max_jobs_running # OpenalexCeiling

SpecFair == InitFair /\ [][Next]_vars /\ WF_vars(Program)

\* ------------------------------------------------ claims: partitioner
\* ceil(n / k) for k >= 1
Ceil(n, k) == (n + k - 1) \div k

\* Number of consecutive rows the j-th yielded pair spans, from the row
\* (1-based) its min_id was read from to the row its max_id was read from.
Span(j) == spans[j][2] - spans[j][1] + 1

\* The yielded pairs tile rows 1..n: first min on the first row, last max on
\* the last row, each min on the row right after the previous max, and the
\* boundaries non-decreasing.
Tiles ==
    LET m == Len(ranges) IN
    /\ m >= 1 /\ Len(spans) = m
    /\ \A j \in 1..m : ranges[j] = <<rows[spans[j][1]], rows[spans[j][2]]>>
    /\ spans[1][1] = 1
    /\ spans[m][2] = Len(rows)
    /\ \A j \in 1..m : ranges[j][1] <= ranges[j][2]
    /\ \A j \in 1..(m - 1) :
          /\ spans[j + 1][1] = spans[j][2] + 1
          /\ ranges[j][2] <= ranges[j + 1][1]

\* No data row holds the empty identifier.
NoEmptyId == \A i \in 1..Len(rows) : rows[i] # EmptyStr

Collected == pc = "collected"

\* C1: for every header-plus-n-row sorted file and 1 <= k <= n, the pairs
\* yielded by iter_id_ranges tile the n rows without gap or overlap, every
\* chunk but the last spans exactly ceil(n/k) rows, and the boundaries are
\* non-decreasing.
C1_CeilChunksTile ==
    (Collected /\ 1 <= num_subgroups /\ num_subgroups <= Len(rows)) =>
        /\ Tiles
        /\ \A j \in 1..(Len(ranges) - 1) :
              Span(j) = Ceil(Len(rows), num_subgroups)
        /\ Span(Len(ranges)) >= 1
        /\ Span(Len(ranges)) <= Ceil(Len(rows), num_subgroups)

\* The same contract on the files count_lines counts right (the last line
\* ends with a newline) and whose identifiers are not empty: there it holds.
CeilChunksTileOnTerminatedFiles == (ends_nl /\ NoEmptyId) => C1_CeilChunksTile

\* C6 as stated: 95 identifiers, target 10: exactly 10 pairs, each covering
\* 9 or 10 consecutive identifiers, from id[0] to id[94].
C6_NineOrTenEach ==
    (Collected /\ Len(rows) = 95 /\ num_subgroups = 10) =>
        /\ Len(ranges) = 10
        /\ \A j \in 1..Len(ranges) : Span(j) \in {9, 10}
        /\ ranges[1][1] = rows[1]
        /\ ranges[Len(ranges)][2] = rows[95]

\* C6 amended: 95 identifiers, target 10: exactly 10 pairs, the first nine
\* covering 10 consecutive identifiers each and the last covering 5, the
\* first pair starting at id[0] and the last ending at id[94].
C6_TenPairsLastOfFive ==
    (Collected /\ Len(rows) = 95 /\ num_subgroups = 10) =>
        /\ Len(ranges) = 10
        /\ \A j \in 1..9 : Span(j) = 10
        /\ Span(10) = 5
        /\ Tiles

C6_Witness ==
    /\ Collected /\ Len(rows) = 95 /\ num_subgroups = 10
    /\ Len(ranges) = 10 /\ pos = 95

\* C7: for n identifiers and a target K with 1 <= K <= n the partitioner
\* produces exactly K ranges (stated for the files whose n rows count_lines
\* counts right).
C7_ExactlyKRanges ==
    (Collected /\ ends_nl /\ 1 <= num_subgroups /\ num_subgroups <= Len(rows)) =>
        Len(ranges) = num_subgroups

\* ------------------------------------------------ claims: admission gate
Elements(q) == {q[j] : j \in 1..Len(q)}

\* Number of driver steps of one kind so far.
CountSteps(step) == Cardinality({j \in 1..Len(events) : events[j][1] = step})

\* The pcs of one polling cycle after the prune, before its outcome.
DecidingPcs == {"cond1", "cond2", "cond3"}

\* C2: limit_jobs never returns from a polling cycle whose freshly pruned
\* count is >= max_jobs_running while the free connections do not exceed the
\* lowest threshold (15): the cycle ends in the 30 s sleep, and the sleep is
\* followed by a new cycle.
C2_NoReturnAtCeiling ==
    [][ /\ ( /\ pc \in DecidingPcs
             /\ n_running >= max_jobs_running
             /\ db_free <= LowThreshold )
           => /\ pc' \in DecidingPcs \cup {"sleep"}
              /\ (pc = "cond3" /\ pc' # pc) => (pc' = "sleep" /\ delay' = PollInterval)
        /\ (pc = "sleep" /\ pc' # "sleep") =>
              (pc' = "squeue" /\ still_running' = <<>> /\ probe_i' = 1)
      ]_vars

C2_Witness ==
    /\ pc = "sleep" /\ n_running >= max_jobs_running
    /\ db_free <= LowThreshold /\ Len(job_queue) >= max_jobs_running

\* C3: whenever limit_jobs has returned the tracked list has fewer than
\* max_jobs_running handles, and in every state of the driver, also right
\* after a handle is appended, it has at most max_jobs_running.
C3_AtMostCeilingTracked ==
    /\ Len(job_queue) <= max_jobs_running
    /\ pc \in {"release", "sbatch", "append"} => Len(job_queue) < max_jobs_running

C3_Witness ==
    /\ pc = "next" /\ recorded # <<>>
    /\ Len(job_queue) = max_jobs_running

\* C4: a cycle whose freshly pruned count is below max_jobs_running - 150
\* returns (after the 5 s sleep) without having called
\* free_connections_exceed, whatever the free-connection count is.
C4_Tier1NoQuery ==
    n_running < max_jobs_running - MarginLow =>
        /\ pc \notin {"cond2", "cond3", "sleep"}
        /\ pc = "release" => (db_queries = <<>> /\ delay = ShortDelay)

C4_Witness ==
    /\ pc = "release" /\ n_running < max_jobs_running - MarginLow
    /\ n_running >= 1 /\ db_free <= LowThreshold /\ db_queries = <<>>

\* No probe has reported a recorded handle absent so far.
AllPresentSoFar ==
    /\ job_queue = recorded
    /\ pc = "squeue" => still_running = SubSeq(job_queue, 1, probe_i - 1)

\* C5 as stated: with ceiling 2 and every submitted handle reported present,
\* the driver blocks at the gate of the second submission: sbatch runs at
\* most once.
C5_BlocksAtSecondGate ==
    (max_jobs_running = 2 /\ AllPresentSoFar) => CountSteps("submit") <= 1

\* C5 amended: with ceiling 2 and every submitted handle reported present,
\* the first two gates can release (tracked count 0 and 1 are below 2) and
\* the driver blocks at the gate of the third submission: as long as no
\* probe reports a handle absent, sbatch runs at most twice and a gate
\* entered with two tracked handles does not release (it polls, or is left
\* by the exception of a call that raised).
C5_BlocksAtThirdGate ==
    (max_jobs_running = 2 /\ AllPresentSoFar) =>
        /\ CountSteps("submit") <= 2
        /\ (CountSteps("gate") = 3 =>
               pc \in {"squeue", "sleep", "DbError", "OSError"} \cup DecidingPcs)

C5_Witness ==
    /\ max_jobs_running = 2 /\ AllPresentSoFar
    /\ Len(ranges) = 3 /\ resume_from = 1
    /\ events[Len(events)] = <<"gate", 3>>
    /\ pc = "sleep" /\ Len(job_queue) = 2 /\ db_free > LowThreshold

\* ------------------------------------------------ claims: driver
StepNames == <<"build", "gate", "submit", "record">>

\* The j-th driver step of a run: the partitions that pass the filter, in
\* ascending index order, each going through build, gate, submit, record.
ExpectedStep(j) == <<StepNames[((j - 1) % 4) + 1], resume_from + ((j - 1) \div 4)>>

\* Number of yielded partitions the index filter lets through.
Passing == IF Len(ranges) >= resume_from THEN Len(ranges) - resume_from + 1 ELSE 0

\* C8: the driver's steps are, in this order and with nothing in between,
\* build, gate, submit, record of the first partition that passes the
\* filter, then of the next one, in ascending index order; when the gate has
\* returned the next step is the submission of the partition it was called
\* for; a run that returns has done this exactly once for every passing
\* partition.
C8_AscendingBuildGateSubmitRecord ==
    /\ \A j \in 1..Len(events) : events[j] = ExpectedStep(j)
    /\ pc \in {"release", "sbatch"} => events[Len(events)] = <<"gate", idx>>
    /\ pc = "append" => events[Len(events)] = <<"submit", idx>>
    /\ pc = "done" => Len(events) = 4 * Passing

C8_Witness ==
    /\ pc = "done" /\ resume_from = 2 /\ Len(ranges) = 3
    /\ Len(events) = 8 /\ events[8] = <<"record", 3>>

\* The handles are job ids and no probe failed on a live job.
NominalRun == ~false_absent /\ \A h \in Elements(recorded) : h >= 1

\* C9: the list submit_subgroup_jobs returns holds the handle of every
\* partition submitted during the run (stated for runs whose sbatch
\* responses were well formed and whose probes were accurate).
C9_ReturnsEverySubmittedHandle ==
    (pc = "done" /\ NominalRun) => Elements(recorded) \subseteq Elements(job_queue)

\* C10 as stated: no submission response, empty or unexpected, makes the
\* driver raise.
C10_MalformedRaisesNothing == pc # "IndexError"

\* The driver is past the prune of a gate and has not appended since.
PrunedNotAppended == pc \in DecidingPcs \cup {"sleep", "release", "sbatch", "append"}

\* C10 amended: an unexpected non-empty response is not validated and raises
\* nothing: its last token is recorded as the handle, the token never
\* matches the live queue, the first prune of the next gate drops it, and
\* the driver goes on with the remaining partitions; an empty response
\* raises IndexError right after sbatch, before a handle is recorded, and
\* the driver stops there.
C10_UnexpectedRecordedEmptyRaises ==
    /\ [](/\ WordTok \notin live
          /\ PrunedNotAppended => WordTok \notin Elements(job_queue)
          /\ pc = "IndexError" =>
                /\ job_id = NoneVal
                /\ events[Len(events)][1] = "submit"
                /\ CountSteps("record") = CountSteps("submit") - 1)
    /\ [][ /\ (pc = "append" /\ pc' # "append") =>
                   /\ pc' = "next"
                   /\ job_queue' = Append(job_queue, job_id)
                   /\ recorded' = Append(recorded, job_id)
           /\ pc = "append" => job_id' = job_id
           /\ pc = "IndexError" => pc' = "IndexError"
         ]_vars

C10_Witness ==
    /\ \E i \in 1..Len(recorded) : recorded[i] = WordTok /\ i < Len(recorded)
    /\ WordTok \notin Elements(job_queue)
    /\ pc = "next"

\* ------------------------------------------------- C11
\* The handles of q whose report of this cycle says "printed", in order.
RECURSIVE KeptOf(_, _)
KeptOf(q, rep) ==
    IF q = <<>> THEN <<>>
    ELSE (IF rep[1][2] THEN <<q[1]>> ELSE <<>>) \o KeptOf(Tail(q), Tail(rep))

\* The positions of one call of limit_jobs.
GatePcs == {"squeue", "cond1", "cond2", "cond3", "sleep", "release"}

PruneStep == pc = "squeue" /\ pc' = "cond1"

\* C11: the in-flight list changes in two places only.  The step that ends a
\* cycle's probe loop has probed every tracked handle, each one once and in
\* order, and leaves exactly the handles reported present, in order; the
\* append after sbatch adds the new handle at the end.  No other step of
\* limit_jobs, and no other step of the driver, touches the list.
C11_PrunedToReportedPresent ==
    [][ /\ PruneStep =>
            /\ Len(reports) = Len(job_queue)
            /\ \A i \in 1..Len(job_queue) : reports[i][1] = job_queue[i]
            /\ job_queue' = KeptOf(job_queue, reports)
        /\ (pc \in GatePcs /\ ~PruneStep) => job_queue' = job_queue
        /\ (pc \notin GatePcs /\ job_queue' # job_queue) =>
            (pc = "append" /\ job_queue' = Append(job_queue, job_id))
      ]_vars

\* A cycle has just pruned two tracked handles down to the second one.
C11_Witness ==
    /\ pc = "cond1"
    /\ Len(reports) = 2
    /\ ~reports[1][2] /\ reports[2][2]
    /\ job_queue = <<reports[2][1]>>

\* ------------------------------------------------- C12
\* C12: the count the conditions read is the length of the list just pruned.
\* Tier 1 releases with the short delay exactly when count < ceiling - 150,
\* without a query; otherwise tier 2 releases with the short delay exactly
\* when count < ceiling - 20 and more than 30 connections are free; otherwise
\* tier 3 releases with the long delay exactly when count < ceiling and more
\* than 15 connections are free; otherwise the gate sleeps the polling
\* interval, which is longer than both release delays, and the next cycle
\* starts with a new probe loop.  A release is followed by the return.
\* (A query that raises leaves the gate by the exception instead.)
C12_FirstHoldingTierDecides ==
    /\ [](pc \in DecidingPcs => n_running = Len(job_queue))
    /\ [](PollInterval > ShortDelay /\ PollInterval > LongDelay)
    /\ [][  /\ (pc = "cond1" /\ pc' # "cond1") =>
                IF n_running < max_jobs_running - MarginLow
                   THEN pc' = "release" /\ delay' = ShortDelay
                   ELSE pc' = "cond2"
            /\ (pc = "cond2" /\ pc' \notin {"cond2", "DbError"}) =>
                IF n_running < max_jobs_running - MarginMid /\ db_free > HighThreshold
                   THEN pc' = "release" /\ delay' = ShortDelay
                   ELSE pc' = "cond3"
            /\ (pc = "cond3" /\ pc' \notin {"cond3", "DbError"}) =>
                IF n_running < max_jobs_running /\ db_free > LowThreshold
                   THEN pc' = "release" /\ delay' = LongDelay
                   ELSE pc' = "sleep" /\ delay' = PollInterval
            /\ (pc = "sleep" /\ pc' # "sleep") =>
                (pc' = "squeue" /\ probe_i' = 1 /\ still_running' = <<>>)
            /\ (pc = "release" /\ pc' # "release") => pc' = "sbatch"
            /\ (pc' = "release" /\ pc # "release") => pc \in DecidingPcs
            /\ (pc' = "sleep" /\ pc # "sleep") => pc = "cond3"
          ]_vars

\* Tier 2 had the count but not the connections; tier 3 released.
C12_Witness ==
    /\ pc = "release" /\ delay = LongDelay
    /\ db_queries = <<HighThreshold, LowThreshold>>
    /\ n_running >= 1

\* ------------------------------------------------- C13
\* C13: for a file of a header line and no data row, with or without a
\* closing newline and for every target count, the partitioner yields
\* nothing at any point, reads no row, and ends by returning normally.
C13_HeaderOnlyYieldsNothing ==
    Len(rows) = 0 =>
        /\ ranges = <<>>
        /\ pos = 0 /\ first_id = NoneVal
        /\ pc \in {"collect", "collected"}
        /\ gen_pc \in {"init", "loop", "done"}
        /\ (pc = "collected") = (gen_pc = "done")

\* The list of a header-only file without closing newline, cut in several
\* partitions, is complete (count_lines gave -1).
C13_Witness ==
    /\ Collected /\ Len(rows) = 0 /\ ~ends_nl
    /\ num_subgroups > 1 /\ total_lines = -1

\* ------------------------------------------------- C14
\* Every submitted job ends up out of the queue, and stays out.
JobsLeave == <>[](live = {})
\* The free-connection count ends up above the low threshold, and stays.
ConnectionsFree == <>[](db_free > LowThreshold)
\* No scheduler or database call raises and no sbatch answer is empty.
NothingRaised == [](raised = "")

\* C14: a probe that answers "not yet" makes the gate sleep and poll again,
\* never raise; and in every run in which the jobs eventually leave the
\* queue, the free connections eventually stay above the low threshold and
\* no external call fails, every call of limit_jobs returns and the driver
\* returns after build, gate, submit and record of every passing partition.
C14_ContentionRetriedNotStarved ==
    /\ [](pc = "sleep" => raised = "")
    /\ (JobsLeave /\ ConnectionsFree /\ NothingRaised) =>
           /\ (pc \in GatePcs) ~> (pc = "sbatch")
           /\ <>(pc = "done" /\ CountSteps("submit") = Passing)

\* The gate went through a sleeping cycle (ceiling reached) and the run
\* still returned with three partitions submitted.
C14_Witness ==
    /\ pc = "done" /\ Passing = 3 /\ CountSteps("submit") = 3
    /\ max_jobs_running = 2 /\ recorded = <<1, 2, 3>>
    /\ raised = "" /\ slept

\* ------------------------------------------------- C15
\* The positions at which submit_subgroup_jobs has been left by an exception.
ErrorPcs == {"IndexError", "DbError", "OSError"}

\* C15: an exception has been raised exactly when the driver has been left
\* by it; a squeue, sbatch or connection-query call that raises leaves the
\* driver inside or right after the gate of the pending partition, whose
\* script exists but which has no submission and no recorded handle; and
\* from then on no script is written, no job is queued, no handle is
\* recorded and no driver step is taken.
C15_ErrorAbortsCampaign ==
    /\ []((raised # "") = (pc \in ErrorPcs))
    /\ [](pc \in {"DbError", "OSError"} =>
             /\ raised = pc
             /\ events # <<>> /\ events[Len(events)] = <<"gate", idx>>
             /\ CountSteps("build") = CountSteps("gate")
             /\ CountSteps("submit") = CountSteps("gate") - 1
             /\ CountSteps("record") = CountSteps("gate") - 1
             /\ Len(recorded) = CountSteps("record")
             /\ Cardinality(scripts) = CountSteps("build"))
    /\ [][raised # "" =>
             /\ UNCHANGED <<pc, idx, events, scripts, recorded, job_queue, ranges>>
             /\ UNCHANGED next_job /\ live' \subseteq live]_vars

\* The connection query raised in the gate of the second of three
\* partitions, after the first was submitted and recorded.
C15_Witness ==
    /\ pc = "DbError" /\ idx = 2
    /\ Len(rows) = 3 /\ num_subgroups = 3 /\ ends_nl
    /\ recorded = <<1>> /\ CountSteps("submit") = 1
    /\ Cardinality(scripts) = 2

\* ------------------------------------------------- C16
\* Partition indices around every change of the padded width, and the
\* first index the shipped filter lets through (`if idx < 5556: continue`).
PadSample == (1..12) \cup {99, 100, 101, 999, 1000, 1001, 5556, 9999, 10000}

BuildStep == pc = "build" /\ pc' # "build"

\* The padded index has at least three digits and differs between indices.
PadDistinct ==
    \A i, j \in PadSample :
        /\ Len(Pad03d(i)) >= 3
        /\ (Pad03d(i) = Pad03d(j)) => (i = j)

\* C16: the step that runs create_query_job queues no job, records no
\* handle and leaves the in-flight list as it was; it adds exactly one
\* script, at the path of the zero-padded index, and keeps every script
\* written before; scripts change at no other step; no two scripts share a
\* path; and the padded index is at least three digits long and different
\* for different indices.
C16_BuildWritesOneScriptOnly ==
    /\ [][  /\ BuildStep =>
                /\ job_queue' = job_queue /\ live' = live /\ next_job' = next_job
                /\ recorded' = recorded /\ job_id' = job_id
                /\ scripts \subseteq scripts'
                /\ Cardinality(scripts') = Cardinality(scripts) + 1
                /\ \A s \in scripts' \ scripts : s.path = Pad03d(idx)
            /\ (scripts' # scripts) => BuildStep
          ]_vars
    /\ [](\A s, t \in scripts : s.path = t.path => s = t)
    /\ [](Cardinality(scripts) = CountSteps("build"))
    /\ [](PadDistinct)

\* The third script has been written while two handles are in flight.
C16_Witness ==
    /\ pc = "gate" /\ idx = 3
    /\ Cardinality(scripts) = 3
    /\ Len(job_queue) = 2 /\ Cardinality(live) = 2

\* ------------------------------------------------- C17
\* The positions at which the driver works on the partition numbered idx.
WorkingPcs == {"build", "gate", "sbatch", "append"} \cup GatePcs

\* f"{idx:03d}" of every index a run can reach.
PaddedIndex == [i \in 1..MaxDriverRows |-> Pad03d(i)]

\* The script the driver writes for the i-th pair the partitioner yielded.
ScriptOf(i) ==
    [path |-> PaddedIndex[i], min_id |-> ranges[i][1], max_id |-> ranges[i][2],
     output_csv |-> PaddedIndex[i]]

\* C17: no build, gate, submit or record step carries an index below the
\* resume threshold; the index the driver works on is the position of the
\* last pair the partitioner yielded, skipped pairs counted; every script
\* is the one of a passing position, with script path, job name and output
\* path carrying that position and the id range being that pair; a run
\* that returns has written the script of every passing position.
C17_FilterSkipsWithoutRenumbering ==
    /\ \A j \in 1..Len(events) :
           events[j][2] >= resume_from /\ events[j][2] <= Len(ranges)
    /\ (pc \in WorkingPcs) => (idx = Len(ranges) /\ idx >= resume_from)
    /\ LET passing == {ScriptOf(i) : i \in resume_from..Len(ranges)}
       IN  /\ scripts \subseteq passing
           /\ (pc = "done") => scripts = passing

\* The first of three partitions was skipped, the second and third were
\* submitted under the numbers 2 and 3.
C17_Witness ==
    /\ pc = "done" /\ resume_from = 2 /\ Len(ranges) = 3
    /\ CountSteps("submit") = 2
    /\ {s.path : s \in scripts} = {Pad03d(2), Pad03d(3)}

\* ------------------------------------------------- C19
\* No squeue call has printed nothing for a job that was in the queue.
AccurateProbe == ~false_absent
\* Every handle taken from an sbatch answer is the id of a queued job.
HandlesAreJobIds == \A h \in Elements(recorded) : h >= 1

\* C19 as stated: with an accurate probe the driver's live jobs never
\* outnumber max_jobs_running.
C19_LiveNeverAboveCeiling ==
    AccurateProbe => Cardinality(live) <= max_jobs_running

\* C19: with an accurate probe and every recorded handle being the id of
\* the job it was returned for, every live job is tracked (or is the one
\* just queued, about to be appended), the live jobs never outnumber
\* max_jobs_running, and from the gate's return to the submission there
\* are fewer than max_jobs_running of them.
C19_LiveWithinCeilingWhenHandlesTrack ==
    (AccurateProbe /\ HandlesAreJobIds) =>
        /\ Cardinality(live) <= max_jobs_running
        /\ (pc \in {"release", "sbatch"}) => Cardinality(live) < max_jobs_running
        /\ (pc # "append") => live \subseteq Elements(job_queue)

\* The gate of the third partition sleeps with the ceiling of two live
\* jobs reached, in a run with accurate probes and well-formed answers.
C19_Witness ==
    /\ AccurateProbe /\ HandlesAreJobIds
    /\ pc = "sleep" /\ idx = 3
    /\ max_jobs_running = 2 /\ Cardinality(live) = 2

\* ------------------------------------------------- C20
\* Recorded job ids that are no longer in the in-flight list.
Dropped == {h \in Elements(recorded) : h >= 1 /\ h \notin Elements(job_queue)}

\* C20: a handle for which a cycle's squeue call printed nothing, whether
\* or not its job is live, is not in the list the cycle leaves; a job id
\* that has left the list never comes back into it; and every squeue call
\* is for a handle of the current list, so a dropped job id is never
\* probed again.
C20_AbsentOnceDroppedForGood ==
    [][ /\ PruneStep =>
            \A i \in 1..Len(reports) :
                ~reports[i][2] => reports[i][1] \notin Elements(job_queue')
        /\ \A h \in Dropped : h \notin Elements(job_queue')
        /\ (reports' # reports /\ reports' # <<>>) =>
            /\ reports'[Len(reports')][1] \in Elements(job_queue)
            /\ reports'[Len(reports')][1] \notin Dropped
      ]_vars

\* After a squeue call that printed nothing for a live job, with every
\* handle a job id, three jobs of the driver are live under a ceiling of two.
C20_Witness ==
    /\ false_absent /\ HandlesAreJobIds
    /\ max_jobs_running = 2 /\ Cardinality(live) = 3
    /\ \E h \in Dropped : h \in live

\* ------------------------------------------------- C21
\* A cycle has decided: it is about to return or to sleep.
Decided == pc \in {"release", "sleep"}
\* Every query of the cycle saw the free-connection count db_free.
SteadyCycle == Decided /\ ~db_moved
Tier1Holds == n_running < max_jobs_running - MarginLow
BetweenThresholds == db_free > LowThreshold /\ ~(db_free > HighThreshold)

\* C21 as stated: in a steady cycle the gate returns exactly when tier 1
\* holds or the count is below the ceiling with more than 15 connections
\* free, and every steady cycle with count < ceiling - 20 and a free count
\* above 15 but not above 30 queries twice and returns with the long delay.
C21_Tier2OnlyPicksDelay ==
    SteadyCycle =>
        /\ (pc = "release") =
              (Tier1Holds \/ (n_running < max_jobs_running /\ db_free > LowThreshold))
        /\ (n_running < max_jobs_running - MarginMid /\ BetweenThresholds) =>
              /\ pc = "release" /\ delay = LongDelay
              /\ db_queries = <<HighThreshold, LowThreshold>>

\* C21: in a steady cycle the gate returns exactly when tier 1 holds or the
\* count is below the ceiling with more than 15 connections free; a steady
\* cycle in which tier 1 does not hold, with count < ceiling - 20 and a free
\* count above 15 but not above 30, queries twice (30, then 15) and returns
\* with the long delay; a cycle in which tier 1 holds returns with the
\* short delay without a query.
C21_Tier2OnlyPicksDelayPastTier1 ==
    SteadyCycle =>
        /\ (pc = "release") =
              (Tier1Holds \/ (n_running < max_jobs_running /\ db_free > LowThreshold))
        /\ (~Tier1Holds /\ n_running < max_jobs_running - MarginMid
                        /\ BetweenThresholds) =>
              /\ pc = "release" /\ delay = LongDelay
              /\ db_queries = <<HighThreshold, LowThreshold>>
        /\ Tier1Holds =>
              (pc = "release" /\ delay = ShortDelay /\ db_queries = <<>>)

\* Tier 2 had the count, 30 connections were free at both queries, and
\* the cycle returned through tier 3.
C21_Witness ==
    /\ SteadyCycle /\ ~Tier1Holds
    /\ n_running < max_jobs_running - MarginMid /\ n_running >= 1
    /\ db_free = HighThreshold
    /\ pc = "release" /\ delay = LongDelay
    /\ db_queries = <<HighThreshold, LowThreshold>>

\* ------------------------------------------------- C22
\* condition 1 of the openalex copy: n_running < max_jobs_running - 50
OpenalexCondition1(n, ceiling) == n < ceiling - OpenalexMarginLow

\* In-flight counts: none, up to one more than the larger ceiling.
Counts == 0..(MAX_JOBS_RUNNING + 1)

\* With the ceiling of the openalex copy no count satisfies condition 1
\* (with either margin) or the count part of condition 2.
OpenalexTiersUnreachable ==
    \A n \in Counts :
        /\ ~OpenalexCondition1(n, OpenalexCeiling)
        /\ ~Condition1(n, OpenalexCeiling)
        /\ ~Condition2(n, OpenalexCeiling)

LowCeiling == max_jobs_running <= MarginMid

\* C22: with a ceiling not above the mid margin (20 in the openalex copy,
\* where conditions 1 and 2 hold for no count), a gate returns only through
\* condition 3: it has asked once, for 15, and the delay is the long one; a
\* cycle sleeps without asking only when the count is not below the
\* ceiling; and as long as the free-connection count has not changed since
\* the query, a returning cycle has more than 15 connections free and a
\* cycle with no more than 15 free sleeps.
C22_LowCeilingAlwaysQueries ==
    /\ OpenalexTiersUnreachable
    /\ LowCeiling =>
        /\ (pc \in {"release", "sbatch"}) => db_queries = <<LowThreshold>>
        /\ (pc = "release") => delay = LongDelay
        /\ (pc = "sleep") =>
              \/ ~(n_running < max_jobs_running) /\ db_queries = <<>>
              \/ db_queries = <<LowThreshold>>
        /\ SteadyCycle =>
              /\ (pc = "release") => db_free > LowThreshold
              /\ (pc = "sleep" /\ db_queries # <<>>) => ~(db_free > LowThreshold)
              /\ ~(db_free > LowThreshold) => pc = "sleep"

\* The first admission of a run with the openalex ceiling, nothing in
\* flight: the gate has queried and sleeps because 15 connections are free.
C22_Witness ==
    /\ max_jobs_running = OpenalexCeiling
    /\ pc = "sleep" /\ idx = 1 /\ recorded = <<>> /\ n_running = 0
    /\ db_free = LowThreshold /\ db_queries = <<LowThreshold>>

\* ------------------------------------------------- C23
\* cluster_query.chunk_list(lst, n) for n >= 1: the slices lst[i : i + n]
\* for i = 0, n, 2n, ... below len(lst).
RECURSIVE chunk_list(_, _)
chunk_list(lst, n) ==
    IF Len(lst) = 0 THEN <<>>
    ELSE LET m == IF n < Len(lst) THEN n ELSE Len(lst)
         IN  <<SubSeq(lst, 1, m)>> \o chunk_list(SubSeq(lst, m + 1, Len(lst)), n)

\* The (min_id, max_id) pairs of cluster_query.submit_subgroup_jobs:
\* chunk_size = (len(all_ids) + num_subgroups - 1) // num_subgroups, then the
\* first and last element of every non-empty chunk.  range(0, len, 0) raises
\* ValueError, which is what an empty list gives.
InMemoryRanges(all_ids, k) ==
    LET size == ChunkSize(Len(all_ids), k) IN
    IF size = 0
       THEN [raised |-> TRUE, pairs |-> <<>>]
       ELSE LET chunks == SelectSeq(chunk_list(all_ids, size), LAMBDA c : c # <<>>)
            IN  [raised |-> FALSE,
                 pairs |-> [j \in 1..Len(chunks) |->
                              <<chunks[j][1], chunks[j][Len(chunks[j])]>>]]

\* C23: for every file of sorted identifiers and every target count, the
\* pairs list(iter_id_ranges(file, k)) collects are the pairs the in-memory
\* partitioning computes from the same identifiers, and that one raises
\* nothing.
C23_SameRangesAsChunkList ==
    Collected =>
        /\ ~InMemoryRanges(rows, num_subgroups).raised
        /\ ranges = InMemoryRanges(rows, num_subgroups).pairs

\* On the files that end with a newline and hold at least one identifier,
\* none of them empty, the two partitionings agree.
SameRangesOnTerminatedFiles ==
    (Len(rows) >= 1 /\ ends_nl /\ NoEmptyId) => C23_SameRangesAsChunkList

\* ------------------------------------------------- C24
\* C24 as stated: whichever total count_lines gave (the row count, or one
\* less for a file without closing newline), the collected pairs of a file
\* with data rows tile the rows, first to last, without gap or overlap when
\* the chunk size is at least 1; and when the chunk size is 0 or less the
\* only pair is (first row, last row).
C24_CoverageDespiteWrongCount ==
    (Collected /\ Len(rows) >= 1) =>
        /\ total_lines \in {Len(rows), Len(rows) - 1}
        /\ (chunk_size >= 1) => Tiles
        /\ (chunk_size <= 0) => ranges = << <<rows[1], rows[Len(rows)]>> >>

\* On the files whose identifiers are not empty the coverage holds: an
\* empty identifier is falsy, so `if not first_id` replaces it by the next
\* row's and `if first_id` drops a closing chunk that starts with it.
CoverageOfNonEmptyIds == NoEmptyId => C24_CoverageDespiteWrongCount

\* Three rows without closing newline, counted as two and cut in chunks of
\* one: three pairs instead of two, still tiling the rows.
WrongCountStillTiles ==
    /\ Collected /\ ~ends_nl /\ Len(rows) = 3 /\ num_subgroups = 2
    /\ total_lines = 2 /\ chunk_size = 1 /\ Len(ranges) = 3

\* An empty identifier on the first of two rows, one chunk: the only pair
\* starts on the second row.
EmptyIdLeftOut ==
    /\ Collected /\ ends_nl /\ Len(rows) = 2 /\ num_subgroups = 1
    /\ rows[1] = EmptyStr /\ rows[2] # EmptyStr
    /\ ranges = << <<rows[2], rows[2]>> >> /\ spans = << <<2, 2>> >>

=============================================================================
